---------------------------- MODULE Spec2Model ----------------------------
(***************************************************************************)
(* Model of the budget-bounded, scope-restricted crawler of                *)
(* recon/html_link_discovery.py and of the URL helpers of                  *)
(* recon/url_canonicalize.py.                                              *)
(*                                                                         *)
(* A text is a sequence of one-character strings; a percent-encoded octet  *)
(* of a path ("%2F", "%2E", "%25") is one element of the sequence.  A URL  *)
(* is the result of urlsplit: a record of scheme, hostname labels, port,   *)
(* path segments (the pieces between the slashes of the path), query pairs *)
(* and fragment.                                                           *)
(* Scores are kept in sixteenths (the source divides by 16.0 once).        *)
(***************************************************************************)
EXTENDS Integers, Sequences, FiniteSets, TLC

VARIABLES cfg, start_urls, pc, seed_i, timeUp,
          visited, enqueued, discovered, edges, host_seen, pattern_counts,
          suppressed_by_pattern, requests_made, max_depth_reached,
          frontier, seq, stop_reason,
          pushed, links_seen, last_fetch, probe

vars == <<cfg, start_urls, pc, seed_i, timeUp,
          visited, enqueued, discovered, edges, host_seen, pattern_counts,
          suppressed_by_pattern, requests_made, max_depth_reached,
          frontier, seq, stop_reason,
          pushed, links_seen, last_fetch, probe>>

-----------------------------------------------------------------------------
(* Texts *)

Digits == {"0", "1", "2", "3", "4", "5", "6", "7", "8", "9"}

HexDigits == Digits \cup {"a", "b", "c", "d", "e", "f", "A", "B", "C", "D", "E", "F"}

AlphaUpper == <<"A", "B", "C", "D", "E", "F", "G", "H", "I", "J", "K", "L", "M",
                "N", "O", "P", "Q", "R", "S", "T", "U", "V", "W", "X", "Y", "Z">>

AlphaLower == <<"a", "b", "c", "d", "e", "f", "g", "h", "i", "j", "k", "l", "m",
                "n", "o", "p", "q", "r", "s", "t", "u", "v", "w", "x", "y", "z">>

\* The characters of the model in code-point order.
CharOrder == <<"-", ".", "0", "1", "2", "3", "4", "5", "6", "7", "8", "9", "=">>
             \o AlphaUpper \o <<"_">> \o AlphaLower \o <<"{", "}">>

Ord(c) == CHOOSE i \in DOMAIN CharOrder : CharOrder[i] = c

\* str.lower() on one character
LowerChar(c) ==
    IF \E i \in DOMAIN AlphaUpper : AlphaUpper[i] = c
    THEN AlphaLower[CHOOSE i \in DOMAIN AlphaUpper : AlphaUpper[i] = c]
    ELSE c

\* str.lower()
Lower(s) == [i \in DOMAIN s |-> LowerChar(s[i])]

\* Python's order on str: lexicographic by code point
StrLess(a, b) ==
    \/ \E k \in 1..Len(a) :
          /\ k <= Len(b)
          /\ \A j \in 1..(k - 1) : a[j] = b[j]
          /\ Ord(a[k]) < Ord(b[k])
    \/ /\ Len(a) < Len(b)
       /\ \A j \in 1..Len(a) : a[j] = b[j]

\* s.startswith(p)
StartsWith(s, p) == Len(p) <= Len(s) /\ SubSeq(s, 1, Len(p)) = p

\* s.endswith(p)
EndsWith(s, p) == Len(p) <= Len(s) /\ SubSeq(s, Len(s) - Len(p) + 1, Len(s)) = p

Min(a, b) == IF a <= b THEN a ELSE b

Max(a, b) == IF a >= b THEN a ELSE b

\* dict.get(k, 0) and defaultdict(int)[k]
Get(f, k) == IF k \in DOMAIN f THEN f[k] ELSE 0

-----------------------------------------------------------------------------
(* recon/url_canonicalize.py *)

\* The empty result of canonical_url ("") and a missing parent (None): both
\* are falsy, and the crawl only ever tests them for truth.
NoUrl == [scheme |-> "", host |-> <<>>, port |-> 0, segs |-> <<>>,
          query |-> <<>>, frag |-> <<>>]

t_utm == <<"u", "t", "m", "_">>

_TRACKING_KEYS ==
    { <<"f", "b", "c", "l", "i", "d">>,
      <<"g", "c", "l", "i", "d">>,
      <<"i", "g", "s", "h", "i", "d">>,
      <<"m", "c", "_", "c", "i", "d">>,
      <<"m", "c", "_", "e", "i", "d">>,
      <<"m", "s", "c", "l", "k", "i", "d">>,
      <<"r", "e", "f">>,
      <<"r", "e", "f", "_", "s", "r", "c">>,
      <<"s", "p", "m">>,
      t_utm \o <<"c", "a", "m", "p", "a", "i", "g", "n">>,
      t_utm \o <<"c", "o", "n", "t", "e", "n", "t">>,
      t_utm \o <<"m", "e", "d", "i", "u", "m">>,
      t_utm \o <<"n", "a", "m", "e">>,
      t_utm \o <<"s", "o", "u", "r", "c", "e">>,
      t_utm \o <<"t", "e", "r", "m">> }

\* _INT_RE  ^\d+$
IsInt(s) == Len(s) >= 1 /\ \A i \in DOMAIN s : s[i] \in Digits

\* _HEX_RE  ^[0-9a-f]{16,}$ (ignoring case)
IsHex(s) == Len(s) >= 16 /\ \A i \in DOMAIN s : s[i] \in HexDigits

\* _UUID_RE (ignoring case)
IsUuid(s) ==
    /\ Len(s) = 36
    /\ \A i \in {9, 14, 19, 24} : s[i] = "-"
    /\ \A i \in (1..36) \ {9, 14, 19, 24} : s[i] \in HexDigits
    /\ s[15] \in {"1", "2", "3", "4", "5"}
    /\ s[20] \in {"8", "9", "a", "b", "A", "B"}

\* _IPV4_RE on the labels of a hostname: four labels of one to three digits
is_ip_hostname(host) ==
    /\ Len(host) = 4
    /\ \A i \in 1..4 : IsInt(host[i]) /\ Len(host[i]) <= 3

\* host.rstrip("."): trailing empty labels go
RECURSIVE RStripDots(_)
RStripDots(host) ==
    IF host # <<>> /\ host[Len(host)] = <<>>
    THEN RStripDots(SubSeq(host, 1, Len(host) - 1))
    ELSE host

\* the first part of _normalize_path, on the segments of the path: runs of
\* "/" collapse (empty segments go), posixpath.normpath drops "." and
\* resolves ".." (which stops at the root), and no trailing slash is left
RECURSIVE normpath(_, _)
normpath(segs, out) ==
    IF segs = <<>> THEN out
    ELSE LET s == Head(segs)
             rest == Tail(segs)
         IN IF s = <<>> \/ s = <<".">> THEN normpath(rest, out)
            ELSE IF s = <<".", ".">>
                 THEN normpath(rest,
                         IF out = <<>> THEN out ELSE SubSeq(out, 1, Len(out) - 1))
                 ELSE normpath(rest, Append(out, s))

\* unquote on one element of a text
UnquoteChar(c) ==
    CASE c = "%2F" -> "/"
      [] c = "%2E" -> "."
      [] c = "%25" -> "%"
      [] OTHER -> c

\* quote(..., safe="/:@-._~!$&'()*+,;=") on one character: of the characters
\* of the model only "%" is encoded
QuoteChar(c) == IF c = "%" THEN "%25" ELSE c

\* text.split("/"), cur being the piece in progress
RECURSIVE SplitSlash(_, _, _)
SplitSlash(text, cur, out) ==
    IF text = <<>> THEN Append(out, cur)
    ELSE IF Head(text) = "/" THEN SplitSlash(Tail(text), <<>>, Append(out, cur))
         ELSE SplitSlash(Tail(text), Append(cur, Head(text)), out)

\* unquote on a path, as the segments of the decoded path: a decoded "/"
\* ends a segment
RECURSIVE UnquoteSegs(_)
UnquoteSegs(segs) ==
    IF segs = <<>> THEN <<>>
    ELSE SplitSlash([i \in DOMAIN Head(segs) |-> UnquoteChar(Head(segs)[i])], <<>>, <<>>)
         \o UnquoteSegs(Tail(segs))

\* quote on the segments of a path ("/" is safe)
QuoteSegs(segs) == [i \in DOMAIN segs |-> [j \in DOMAIN segs[i] |-> QuoteChar(segs[i][j])]]

\* _normalize_path: the path is normalized first, then percent-decoded and
\* encoded again; what the decoding sets free ("/", ".", "..") stays
_normalize_path(segs) == QuoteSegs(UnquoteSegs(normpath(segs, <<>>)))

\* the sort key of _filter_and_sort_query_pairs: (key.lower(), value)
PairLess(a, b) ==
    \/ StrLess(Lower(a[1]), Lower(b[1]))
    \/ Lower(a[1]) = Lower(b[1]) /\ StrLess(a[2], b[2])

\* list.sort(key=...) is stable: p goes after the entries it does not precede
RECURSIVE InsertPair(_, _)
InsertPair(sorted, p) ==
    IF sorted = <<>> THEN <<p>>
    ELSE IF PairLess(p, Head(sorted)) THEN <<p>> \o sorted
         ELSE <<Head(sorted)>> \o InsertPair(Tail(sorted), p)

RECURSIVE SortPairs(_)
SortPairs(pairs) ==
    IF pairs = <<>> THEN <<>>
    ELSE InsertPair(SortPairs(SubSeq(pairs, 1, Len(pairs) - 1)), pairs[Len(pairs)])

IsTracking(key) == Lower(key) \in _TRACKING_KEYS \/ StartsWith(Lower(key), t_utm)

_filter_and_sort_query_pairs(pairs, remove_tracking) ==
    SortPairs(SelectSeq(pairs, LAMBDA kv :
                  kv[1] # <<>> /\ ~(remove_tracking /\ IsTracking(kv[1]))))

DefaultPort(scheme, port) ==
    (scheme = "http" /\ port = 80) \/ (scheme = "https" /\ port = 443)

\* the port of a URL whose port text is no number ("http://h.io:abc/")
NotANumber == -1

\* the highest port SplitResult.port accepts
MaxPort == 65535

\* SplitResult.port raises ValueError: the port text is not a number, or the
\* number is out of range
PortRaises(port) == port = NotANumber \/ port > MaxPort

\* the text of a scheme
SchemeText(scheme) ==
    CASE scheme = "http" -> <<"h", "t", "t", "p">>
      [] scheme = "https" -> <<"h", "t", "t", "p", "s">>
      [] scheme = "mailto" -> <<"m", "a", "i", "l", "t", "o">>
      [] scheme = "javascript" -> <<"j", "a", "v", "a", "s", "c", "r", "i", "p", "t">>
      [] OTHER -> <<>>

\* text.split(sep), cur being the piece in progress
RECURSIVE SplitOn(_, _, _, _)
SplitOn(text, sep, cur, out) ==
    IF text = <<>> THEN Append(out, cur)
    ELSE IF Head(text) = sep THEN SplitOn(Tail(text), sep, <<>>, Append(out, cur))
         ELSE SplitOn(Tail(text), sep, Append(cur, Head(text)), out)

\* int() on a text of digits
RECURSIVE ToNat(_)
ToNat(text) ==
    IF text = <<>> THEN 0
    ELSE 10 * ToNat(SubSeq(text, 1, Len(text) - 1))
         + (CHOOSE d \in 0..9 : CharOrder[d + 3] = text[Len(text)])

\* the port of a netloc text: what follows the first ":" after the user
\* information; none (0) when nothing follows
PortOfText(hostport) ==
    IF Len(hostport) = 1 \/ (Len(hostport) = 2 /\ hostport[2] = <<>>) THEN 0
    ELSE IF Len(hostport) = 2 /\ IsInt(hostport[2]) THEN ToNat(hostport[2])
    ELSE NotANumber

\* urlsplit(f"{assumed}://{value}") for a value that urlsplit gave no netloc
\* (a URL "scheme:path" whose path has no leading slash, or a value without
\* scheme): the scheme and the first path segment become the netloc, whose
\* user information ends at the last "@" and whose port begins at the
\* first ":" after it
Resplit(raw) ==
    LET first == IF raw.segs = <<>> THEN <<>> ELSE raw.segs[1]
        netloc == (IF raw.scheme = "" THEN <<>> ELSE SchemeText(raw.scheme) \o <<":">>)
                  \o first
        byAt == SplitOn(netloc, "@", <<>>, <<>>)
        hostport == SplitOn(byAt[Len(byAt)], ":", <<>>, <<>>)
    IN [scheme |-> "http",
        host   |-> IF hostport[1] = <<>> THEN <<>> ELSE SplitOn(hostport[1], ".", <<>>, <<>>),
        port   |-> PortOfText(hostport),
        segs   |-> IF raw.segs = <<>> THEN <<>> ELSE Tail(raw.segs),
        query  |-> raw.query,
        frag   |-> raw.frag]

\* parts: urlsplit(value), split again when it has no scheme or no netloc
SplitParts(raw) == IF raw.scheme = "" \/ raw.host = <<>> THEN Resplit(raw) ELSE raw

\* canonicalize_url raises: "port = parts.port" is outside any try and is
\* reached when the scheme is http(s) and the host is not empty
canonical_url_raises(raw) ==
    /\ raw # NoUrl
    /\ LET parts == SplitParts(raw)
       IN /\ parts.scheme \in {"http", "https"}
          /\ RStripDots([i \in DOMAIN parts.host |-> Lower(parts.host[i])]) # <<>>
          /\ PortRaises(parts.port)

\* canonical_url(raw, base, remove_tracking) for a raw URL that urljoin
\* leaves as it is, when it does not raise: "" (NoUrl) when rejected.
canonical_url(raw, remove_tracking) ==
    IF raw = NoUrl THEN NoUrl
    ELSE LET parts == SplitParts(raw)
             host == RStripDots([i \in DOMAIN parts.host |-> Lower(parts.host[i])])
         IN IF parts.scheme \notin {"http", "https"} THEN NoUrl
            ELSE IF host = <<>> THEN NoUrl
            ELSE [scheme |-> parts.scheme,
                  host   |-> host,
                  port   |-> IF DefaultPort(parts.scheme, parts.port) THEN 0 ELSE parts.port,
                  segs   |-> _normalize_path(parts.segs),
                  query  |-> _filter_and_sort_query_pairs(parts.query, remove_tracking),
                  frag   |-> <<>>]

t_int == <<"{", "i", "n", "t", "}">>

t_uuid == <<"{", "u", "u", "i", "d", "}">>

t_hex == <<"{", "h", "e", "x", "}">>

t_long == <<"{", "l", "o", "n", "g", "}">>

t_str == <<"{", "s", "t", "r", "}">>

TokenOf(v, other) ==
    IF IsInt(v) THEN t_int
    ELSE IF IsUuid(v) THEN t_uuid
    ELSE IF IsHex(v) THEN t_hex
    ELSE IF Len(v) > 64 THEN t_long
    ELSE other

_normalize_value_token(v) == IF v = <<>> THEN <<>> ELSE TokenOf(v, t_str)

_normalize_path_segment(s) == IF s = <<>> THEN <<>> ELSE TokenOf(s, s)

\* the order of q_norm.sort() on (key, token) pairs
TupleLess(a, b) == StrLess(a[1], b[1]) \/ (a[1] = b[1] /\ StrLess(a[2], b[2]))

RECURSIVE InsertTuple(_, _)
InsertTuple(sorted, p) ==
    IF sorted = <<>> THEN <<p>>
    ELSE IF TupleLess(p, Head(sorted)) THEN <<p>> \o sorted
         ELSE <<Head(sorted)>> \o InsertTuple(Tail(sorted), p)

RECURSIVE SortTuples(_)
SortTuples(pairs) ==
    IF pairs = <<>> THEN <<>>
    ELSE InsertTuple(SortTuples(SubSeq(pairs, 1, Len(pairs) - 1)), pairs[Len(pairs)])

\* url_pattern_key: the key is the text host + path + "?" + query; the record
\* holds the three parts of that text.
url_pattern_key(url) ==
    LET segs == SelectSeq(UnquoteSegs(url.segs), LAMBDA s : s # <<>>)
        norm == [i \in DOMAIN segs |-> _normalize_path_segment(segs[i])]
        q    == SelectSeq(url.query, LAMBDA kv : kv[1] # <<>>)
        qn   == [i \in DOMAIN q |-> <<Lower(q[i][1]), _normalize_value_token(q[i][2])>>]
    IN [host  |-> [i \in DOMAIN url.host |-> Lower(url.host[i])],
        path  |-> norm,
        query |-> SortTuples(qn)]

\* query_param_count
query_param_count(url) == Len(url.query)

RECURSIVE QueryLen(_)
\* len(p.query) of the text k=v&k=v...
QueryLen(q) ==
    IF q = <<>> THEN 0
    ELSE Len(q[1][1]) + 1 + Len(q[1][2]) + (IF Len(q) > 1 THEN 1 ELSE 0) + QueryLen(Tail(q))

-----------------------------------------------------------------------------
(* recon/url_classify.py, of which only the callers are at hand *)

AssetExts == { <<".", "p", "n", "g">>, <<".", "c", "s", "s">>, <<".", "j", "s">> }

FeedNames == { <<"f", "e", "e", "d">>, <<"r", "s", "s">>, <<"a", "t", "o", "m">> }

ApiRoots == { <<"a", "p", "i">>, <<"v", "1">>, <<"v", "2">>, <<"r", "e", "s", "t">>,
              <<"g", "r", "a", "p", "h", "q", "l">> }

classify_url(url) ==
    LET segs == url.segs
        last == IF segs = <<>> THEN <<>> ELSE segs[Len(segs)]
    IN IF \E e \in AssetExts : EndsWith(last, e) THEN "asset"
       ELSE IF \/ EndsWith(last, <<".", "r", "s", "s">>)
               \/ EndsWith(last, <<".", "a", "t", "o", "m">>)
               \/ \E i \in DOMAIN segs : segs[i] \in FeedNames THEN "feed"
       ELSE IF \/ (segs # <<>> /\ segs[1] \in ApiRoots)
               \/ \E i \in DOMAIN segs : \/ EndsWith(segs[i], <<".", "j", "s", "o", "n">>)
                                         \/ EndsWith(segs[i], <<".", "x", "m", "l">>)
            THEN "api"
       ELSE "page"

-----------------------------------------------------------------------------
(* The inputs: seeds, budgets, and what the Fetcher and the extractor return *)

\* max_depth is None
NoDepth == -1

\* links the extractor returns over a whole crawl
MaxLinks == 2

Url(scheme, host, port, segs, query, frag) ==
    [scheme |-> scheme, host |-> host, port |-> port, segs |-> segs,
     query |-> query, frag |-> frag]

h_apex == << <<"h">>, <<"i", "o">> >>

h_upper == << <<"H">>, <<"I", "O">> >>

h_api == << <<"a", "p", "i">>, <<"h">>, <<"i", "o">> >>

\* xh.io ends with h.io but is no subdomain of it
h_out == << <<"x", "h">>, <<"i", "o">> >>

s_item == <<"i", "t", "e", "m">>

q_utm == << <<t_utm \o <<"s", "o", "u", "r", "c", "e">>, <<"x">>>> >>

\* The URLs of the model.  The state holds a URL by its text, as the program
\* does; UrlOf is what urlsplit makes of that text.
UrlOf ==
    [n \in {"http://h.io/", "https://h.io/", "http://h.io/item/1", "http://h.io/item/2",
            "http://h.io/item/2?utm_source=x",
            "http://H.IO:80/item//./x/../2?utm_source=x#top",
            "http://api.h.io/v1", "http://h.io/logo.png", "http://h.io/feed",
            "http://xh.io/", "mailto://h.io/a", "http://h.io/%2E%2E", "http://h.io/.."} |->
       CASE n = "http://h.io/" -> Url("http", h_apex, 0, <<>>, <<>>, <<>>)
         [] n = "https://h.io/" -> Url("https", h_apex, 0, <<>>, <<>>, <<>>)
         [] n = "http://h.io/item/1" -> Url("http", h_apex, 0, <<s_item, <<"1">>>>, <<>>, <<>>)
         [] n = "http://h.io/item/2" -> Url("http", h_apex, 0, <<s_item, <<"2">>>>, <<>>, <<>>)
         [] n = "http://h.io/item/2?utm_source=x" ->
                Url("http", h_apex, 0, <<s_item, <<"2">>>>, q_utm, <<>>)
         [] n = "http://H.IO:80/item//./x/../2?utm_source=x#top" ->
                Url("http", h_upper, 80,
                    <<s_item, <<>>, <<".">>, <<"x">>, <<".", ".">>, <<"2">>>>,
                    q_utm, <<"t", "o", "p">>)
         [] n = "http://api.h.io/v1" -> Url("http", h_api, 0, << <<"v", "1">> >>, <<>>, <<>>)
         [] n = "http://h.io/logo.png" ->
                Url("http", h_apex, 0, << <<"l", "o", "g", "o", ".", "p", "n", "g">> >>,
                    <<>>, <<>>)
         [] n = "http://h.io/feed" ->
                Url("http", h_apex, 0, << <<"f", "e", "e", "d">> >>, <<>>, <<>>)
         [] n = "http://xh.io/" -> Url("http", h_out, 0, <<>>, <<>>, <<>>)
         [] n = "mailto://h.io/a" -> Url("mailto", h_apex, 0, << <<"a">> >>, <<>>, <<>>)
         [] n = "http://h.io/%2E%2E" ->
                Url("http", h_apex, 0, << <<"%2E", "%2E">> >>, <<>>, <<>>)
         [] n = "http://h.io/.." -> Url("http", h_apex, 0, << <<".", ".">> >>, <<>>, <<>>)]

Urls == DOMAIN UrlOf

\* the text of a URL record; "" for the empty result
TextOf(url) == IF url = NoUrl THEN "" ELSE CHOOSE n \in Urls : UrlOf[n] = url

\* canonical_url on the URLs of the model
Canon == [rt \in BOOLEAN |-> [n \in Urls |-> TextOf(canonical_url(UrlOf[n], rt))]]

\* url_pattern_key on the URLs of the model
PatternOf == [n \in Urls |-> url_pattern_key(UrlOf[n])]

\* (urlparse(url).hostname or "").lower()
HostOf == [n \in Urls |-> [i \in DOMAIN UrlOf[n].host |-> Lower(UrlOf[n].host[i])]]

\* classify_url on the URLs of the model
KindOf == [n \in Urls |-> classify_url(UrlOf[n])]

\* what extract_links may return: absolute http(s) URLs
LinkPool == {"http://h.io/item/1", "http://H.IO:80/item//./x/../2?utm_source=x#top",
             "http://api.h.io/v1", "http://h.io/logo.png", "http://h.io/feed",
             "http://xh.io/"}

\* where a fetch may be redirected to
RedirectPool == {"http://h.io/item/2", "http://xh.io/"}

SeedLists == { <<"https://h.io/", "http://h.io/">>, <<"http://h.io/", "https://h.io/">>,
               <<"http://h.io/item/1">>,
               <<"http://H.IO:80/item//./x/../2?utm_source=x#top", "mailto://h.io/a",
                 "http://xh.io/">>,
               <<"http://xh.io/">>,
               <<"http://h.io/%2E%2E">> }

\* Every combination of the request, node and depth budgets, with and without
\* a pattern cap and an HTTP client.  A time budget is explored with the
\* pattern cap or the request budget on; tracking parameters are kept (--keep-tracking), and the JS
\* and headless collaborators are switched on (js_config, headless), only in
\* runs with the pattern cap on and without a time, node or depth budget.
Configs ==
    {c \in [apex : {h_apex},
            max_requests : {0, 1},
            max_nodes : {0, 3},
            max_time_s : {0, 1},
            max_depth : {NoDepth, 0},
            max_per_pattern : {0, 1},
            rate_limit_s : {1},
            remove_tracking : BOOLEAN,
            have_requests : BOOLEAN,
            js : BOOLEAN,
            headless : BOOLEAN] :
        /\ c.max_time_s > 0 => c.max_per_pattern = 1 \/ c.max_requests = 1
        /\ (~c.remove_tracking \/ c.js \/ c.headless) =>
              /\ c.max_time_s = 0 /\ c.max_nodes = 0 /\ c.max_depth = NoDepth
              /\ c.max_per_pattern = 1 /\ c.have_requests
        /\ ~c.remove_tracking => c.max_requests = 0 /\ ~c.js /\ ~c.headless}

-----------------------------------------------------------------------------
(* recon/html_link_discovery.py *)

\* apex_of: the host in lower case, whether an address, a host:port or a name
apex_of(host) == [i \in DOMAIN host |-> Lower(host[i])]

\* _host_in_scope: h.endswith("." + apex) on hostname labels; the apex is
\* taken as given, and "." + "" is a dot, which ends h when its last label
\* is empty
_host_in_scope(host, apex) ==
    LET h == [i \in DOMAIN host |-> Lower(host[i])]
        suffix == IF apex = <<>> THEN << <<>> >> ELSE apex
    IN IF h = <<>> THEN FALSE
       ELSE IF is_ip_hostname(apex) THEN h = apex
       ELSE IF h = apex THEN TRUE
       ELSE Len(h) > Len(suffix) /\ SubSeq(h, Len(h) - Len(suffix) + 1, Len(h)) = suffix

\* the repeat-pattern term of _priority_score, in sixteenths
PatternPenalty(pattern_seen_count) == 16 * Min(80, pattern_seen_count * 8)

\* _priority_score, in sixteenths
_priority_score(url, hosts, pattern_seen_count) ==
    LET host == [i \in DOMAIN url.host |-> Lower(url.host[i])]
        novel == host # <<>> /\ host \notin hosts
        qn == query_param_count(url)
    IN (IF novel THEN 16 * 120 ELSE 0)
       + (IF novel /\ is_ip_hostname(host) THEN 16 * 80 ELSE 0)
       + (IF url.scheme = "https" THEN 16 * 8 ELSE 0)
       - (IF qn > 0 THEN 16 * (18 + Min(60, qn * 10)) ELSE 0)
       - (IF url.query # <<>> THEN Min(16 * 30, Max(0, QueryLen(url.query) - 24)) ELSE 0)
       - PatternPenalty(pattern_seen_count)

\* the locals of crawl() that add_discovered and budget_hit read and write
Locals ==
    [visited |-> visited, enqueued |-> enqueued, discovered |-> discovered,
     edges |-> edges, host_seen |-> host_seen, pattern_counts |-> pattern_counts,
     suppressed_by_pattern |-> suppressed_by_pattern,
     requests_made |-> requests_made, max_depth_reached |-> max_depth_reached,
     frontier |-> frontier, seq |-> seq, stop_reason |-> stop_reason,
     timeUp |-> timeUp, pushed |-> pushed]

Store(st) ==
    /\ visited' = st.visited
    /\ enqueued' = st.enqueued
    /\ discovered' = st.discovered
    /\ edges' = st.edges
    /\ host_seen' = st.host_seen
    /\ pattern_counts' = st.pattern_counts
    /\ suppressed_by_pattern' = st.suppressed_by_pattern
    /\ requests_made' = st.requests_made
    /\ max_depth_reached' = st.max_depth_reached
    /\ frontier' = st.frontier
    /\ seq' = st.seq
    /\ stop_reason' = st.stop_reason
    /\ timeUp' = st.timeUp
    /\ pushed' = st.pushed

\* TimeHit that does not look at the clock
TimeHitUnelapsed(elapsed, max_time_s) == max_time_s > 0

\* (time.time() - started) >= max_time_s, for a budget that is set
TimeHit(elapsed, max_time_s) == max_time_s > 0 /\ elapsed

\* RequestsHit with the comparison ">" in place of ">="
RequestsHitAbove(made, max_requests) == max_requests > 0 /\ made > max_requests

RequestsHit(made, max_requests) == max_requests > 0 /\ made >= max_requests

\* NodesHit with the comparison ">" in place of ">="
NodesHitAbove(n, max_nodes) == max_nodes > 0 /\ n > max_nodes

NodesHit(n, max_nodes) == max_nodes > 0 /\ n >= max_nodes

\* BudgetReason that tests the request budget before the time budget
BudgetReasonRequestsFirst(st) ==
    IF RequestsHit(st.requests_made, cfg.max_requests) THEN "maxRequests"
    ELSE IF TimeHit(st.timeUp, cfg.max_time_s) THEN "maxTime"
    ELSE IF NodesHit(Cardinality(DOMAIN st.discovered), cfg.max_nodes) THEN "maxNodes"
    ELSE ""

\* budget_hit: the axis it reports, "" when it returns False
BudgetReason(st) ==
    IF TimeHit(st.timeUp, cfg.max_time_s) THEN "maxTime"
    ELSE IF RequestsHit(st.requests_made, cfg.max_requests) THEN "maxRequests"
    ELSE IF NodesHit(Cardinality(DOMAIN st.discovered), cfg.max_nodes) THEN "maxNodes"
    ELSE ""

\* budget_hit's assignment to stop_reason
budget_hit(st) ==
    IF BudgetReason(st) # "" THEN [st EXCEPT !.stop_reason = BudgetReason(st)] ELSE st

\* PatternCapped with the comparison ">" in place of ">="
PatternCappedAbove(count, max_per_pattern) == max_per_pattern # 0 /\ count > max_per_pattern

\* pattern_counts[pattern] >= max_per_pattern, under "if max_per_pattern"
PatternCapped(count, max_per_pattern) == max_per_pattern # 0 /\ count >= max_per_pattern

\* ShouldEnqueue without the test of kind
ShouldEnqueueAnyKind(st, child_url, depth, kind, from_frontier) ==
    /\ from_frontier
    /\ ~(cfg.max_depth # NoDepth /\ depth > cfg.max_depth)
    /\ child_url \notin st.visited
    /\ child_url \notin st.enqueued

\* ShouldEnqueue without the test of depth against max_depth
ShouldEnqueueAnyDepth(st, child_url, depth, kind, from_frontier) ==
    /\ from_frontier
    /\ kind \in {"page", "api"}
    /\ child_url \notin st.visited
    /\ child_url \notin st.enqueued

\* the tail of add_discovered: only page-like URLs are pushed
ShouldEnqueue(st, child_url, depth, kind, from_frontier) ==
    /\ from_frontier
    /\ ~(cfg.max_depth # NoDepth /\ depth > cfg.max_depth)
    /\ kind \in {"page", "api"}
    /\ child_url \notin st.visited
    /\ child_url \notin st.enqueued

\* DepthReached that assigns the depth of the last node unconditionally
DepthReachedLast(reached, depth) == depth

\* depth > max_depth_reached
DepthReached(reached, depth) == IF depth > reached THEN depth ELSE reached

\* Insert that pushes without adding the URL to enqueued
InsertUntracked(st, child_url, parent_url, depth, kind, from_frontier) ==
    LET host == HostOf[child_url]
        pattern == PatternOf[child_url]
        counts == IF cfg.max_per_pattern # 0
                  THEN (pattern :> (Get(st.pattern_counts, pattern) + 1)) @@ st.pattern_counts
                  ELSE st.pattern_counts
        pattern_seen == Max(0, Get(counts, pattern) - 1)
        score == _priority_score(UrlOf[child_url], st.host_seen, pattern_seen)
        node == [url |-> child_url, depth |-> depth, parent |-> parent_url,
                 score |-> score, kind |-> kind]
        st1 == [st EXCEPT
                  !.pattern_counts = counts,
                  !.discovered = (child_url :> node) @@ st.discovered,
                  !.max_depth_reached = DepthReached(st.max_depth_reached, depth),
                  !.host_seen = IF host # <<>> THEN @ \cup {host} ELSE @,
                  !.edges = IF parent_url # "" THEN @ \cup {<<parent_url, child_url>>} ELSE @]
    IN IF ShouldEnqueue(st1, child_url, depth, kind, from_frontier)
       THEN [st1 EXCEPT
               !.frontier = @ \cup {[negscore |-> -score, depth |-> depth,
                                     seq |-> st1.seq, url |-> child_url]},
               !.seq = @ + 1,
               !.pushed = @ \cup {child_url}]
       ELSE st1

\* Insert that counts the pattern of a node only when it has a parent
InsertUncounted(st, child_url, parent_url, depth, kind, from_frontier) ==
    LET host == HostOf[child_url]
        pattern == PatternOf[child_url]
        counts == IF cfg.max_per_pattern # 0 /\ parent_url # ""
                  THEN (pattern :> (Get(st.pattern_counts, pattern) + 1)) @@ st.pattern_counts
                  ELSE st.pattern_counts
        pattern_seen == Max(0, Get(counts, pattern) - 1)
        score == _priority_score(UrlOf[child_url], st.host_seen, pattern_seen)
        node == [url |-> child_url, depth |-> depth, parent |-> parent_url,
                 score |-> score, kind |-> kind]
        st1 == [st EXCEPT
                  !.pattern_counts = counts,
                  !.discovered = (child_url :> node) @@ st.discovered,
                  !.max_depth_reached = DepthReached(st.max_depth_reached, depth),
                  !.host_seen = IF host # <<>> THEN @ \cup {host} ELSE @,
                  !.edges = IF parent_url # "" THEN @ \cup {<<parent_url, child_url>>} ELSE @]
    IN IF ShouldEnqueue(st1, child_url, depth, kind, from_frontier)
       THEN [st1 EXCEPT
               !.frontier = @ \cup {[negscore |-> -score, depth |-> depth,
                                     seq |-> st1.seq, url |-> child_url]},
               !.seq = @ + 1,
               !.enqueued = @ \cup {child_url},
               !.pushed = @ \cup {child_url}]
       ELSE st1

\* add_discovered past its early returns: the node is inserted
Insert(st, child_url, parent_url, depth, kind, from_frontier) ==
    LET host == HostOf[child_url]
        pattern == PatternOf[child_url]
        counts == IF cfg.max_per_pattern # 0
                  THEN (pattern :> (Get(st.pattern_counts, pattern) + 1)) @@ st.pattern_counts
                  ELSE st.pattern_counts
        pattern_seen == Max(0, Get(counts, pattern) - 1)
        score == _priority_score(UrlOf[child_url], st.host_seen, pattern_seen)
        node == [url |-> child_url, depth |-> depth, parent |-> parent_url,
                 score |-> score, kind |-> kind]
        st1 == [st EXCEPT
                  !.pattern_counts = counts,
                  !.discovered = (child_url :> node) @@ st.discovered,
                  !.max_depth_reached = DepthReached(st.max_depth_reached, depth),
                  !.host_seen = IF host # <<>> THEN @ \cup {host} ELSE @,
                  !.edges = IF parent_url # "" THEN @ \cup {<<parent_url, child_url>>} ELSE @]
    IN IF ShouldEnqueue(st1, child_url, depth, kind, from_frontier)
       THEN [st1 EXCEPT
               !.frontier = @ \cup {[negscore |-> -score, depth |-> depth,
                                     seq |-> st1.seq, url |-> child_url]},
               !.seq = @ + 1,
               !.enqueued = @ \cup {child_url},
               !.pushed = @ \cup {child_url}]
       ELSE st1

\* add_discovered without the early return of a hit budget
add_discovered_unbudgeted(st, child_url, parent_url, depth, kind, from_frontier) ==
    IF child_url = "" THEN st
    ELSE IF child_url \in DOMAIN st.discovered THEN st
    ELSE LET pattern == PatternOf[child_url]
         IN IF PatternCapped(Get(st.pattern_counts, pattern), cfg.max_per_pattern)
            THEN [st EXCEPT !.suppressed_by_pattern =
                     (pattern :> (Get(@, pattern) + 1)) @@ @]
            ELSE Insert(st, child_url, parent_url, depth, kind, from_frontier)

\* add_discovered without the early return for a URL already registered
add_discovered_again(st, child_url, parent_url, depth, kind, from_frontier) ==
    IF child_url = "" THEN st
    ELSE IF BudgetReason(st) # "" THEN budget_hit(st)
    ELSE LET pattern == PatternOf[child_url]
         IN IF PatternCapped(Get(st.pattern_counts, pattern), cfg.max_per_pattern)
            THEN [st EXCEPT !.suppressed_by_pattern =
                     (pattern :> (Get(@, pattern) + 1)) @@ @]
            ELSE Insert(st, child_url, parent_url, depth, kind, from_frontier)

\* add_discovered that pushes a page-like URL before the pattern cap is applied
add_discovered_push_first(st, child_url, parent_url, depth, kind, from_frontier) ==
    IF child_url = "" THEN st
    ELSE IF child_url \in DOMAIN st.discovered THEN st
    ELSE IF BudgetReason(st) # "" THEN budget_hit(st)
    ELSE LET pattern == PatternOf[child_url]
         IN IF PatternCapped(Get(st.pattern_counts, pattern), cfg.max_per_pattern)
            THEN IF ShouldEnqueue(st, child_url, depth, kind, from_frontier)
                 THEN [st EXCEPT
                         !.suppressed_by_pattern = (pattern :> (Get(@, pattern) + 1)) @@ @,
                         !.frontier = @ \cup {[negscore |-> 0, depth |-> depth,
                                               seq |-> st.seq, url |-> child_url]},
                         !.seq = @ + 1,
                         !.enqueued = @ \cup {child_url},
                         !.pushed = @ \cup {child_url}]
                 ELSE [st EXCEPT !.suppressed_by_pattern =
                          (pattern :> (Get(@, pattern) + 1)) @@ @]
            ELSE Insert(st, child_url, parent_url, depth, kind, from_frontier)

\* add_discovered that pushes a URL already registered once more
add_discovered_requeue(st, child_url, parent_url, depth, kind, from_frontier) ==
    IF child_url = "" THEN st
    ELSE IF child_url \in DOMAIN st.discovered
         THEN IF from_frontier /\ child_url \notin st.visited
              THEN [st EXCEPT
                      !.frontier = @ \cup {[negscore |-> -st.discovered[child_url].score,
                                            depth |-> depth, seq |-> st.seq,
                                            url |-> child_url]},
                      !.seq = @ + 1]
              ELSE st
    ELSE IF BudgetReason(st) # "" THEN budget_hit(st)
    ELSE LET pattern == PatternOf[child_url]
         IN IF PatternCapped(Get(st.pattern_counts, pattern), cfg.max_per_pattern)
            THEN [st EXCEPT !.suppressed_by_pattern =
                     (pattern :> (Get(@, pattern) + 1)) @@ @]
            ELSE Insert(st, child_url, parent_url, depth, kind, from_frontier)

\* add_discovered that counts a suppressed URL in pattern_counts as well
add_discovered_counts_capped(st, child_url, parent_url, depth, kind, from_frontier) ==
    IF child_url = "" THEN st
    ELSE IF child_url \in DOMAIN st.discovered THEN st
    ELSE IF BudgetReason(st) # "" THEN budget_hit(st)
    ELSE LET pattern == PatternOf[child_url]
         IN IF PatternCapped(Get(st.pattern_counts, pattern), cfg.max_per_pattern)
            THEN [st EXCEPT
                    !.suppressed_by_pattern = (pattern :> (Get(@, pattern) + 1)) @@ @,
                    !.pattern_counts = (pattern :> (Get(@, pattern) + 1)) @@ @]
            ELSE Insert(st, child_url, parent_url, depth, kind, from_frontier)

\* add_discovered, from its early returns to the insertion
add_discovered(st, child_url, parent_url, depth, kind, from_frontier) ==
    IF child_url = "" THEN st
    ELSE IF child_url \in DOMAIN st.discovered THEN st
    ELSE IF BudgetReason(st) # "" THEN budget_hit(st)
    ELSE LET pattern == PatternOf[child_url]
         IN IF PatternCapped(Get(st.pattern_counts, pattern), cfg.max_per_pattern)
            THEN [st EXCEPT !.suppressed_by_pattern =
                     (pattern :> (Get(@, pattern) + 1)) @@ @]
            ELSE Insert(st, child_url, parent_url, depth, kind, from_frontier)

-----------------------------------------------------------------------------
(* crawl() *)

\* no URL under the canonicalizer
NoProbe == [stage |-> "none", raw |-> NoUrl, rt |-> TRUE, once |-> NoUrl, twice |-> NoUrl]

\* no request made yet
NoLast == [url |-> "", final |-> "", outcome |-> "", fresh |-> FALSE,
           slept |-> FALSE, page |-> "", links |-> {}]

Init ==
    /\ cfg \in Configs
    /\ start_urls \in SeedLists
    /\ pc = "seed"
    /\ seed_i = 1
    /\ timeUp = FALSE
    /\ visited = {}
    /\ enqueued = {}
    /\ discovered = <<>>
    /\ edges = {}
    /\ host_seen = {}
    /\ pattern_counts = <<>>
    /\ suppressed_by_pattern = <<>>
    /\ requests_made = 0
    /\ max_depth_reached = 0
    /\ frontier = {}
    /\ seq = 0
    /\ stop_reason = ""
    /\ pushed = {}
    /\ links_seen = 0
    /\ last_fetch = NoLast
    /\ probe = NoProbe

\* the clock passes max_time_s
Elapse(st) == [st EXCEPT !.timeUp = TRUE]

\* The clock passes max_time_s between two passes of a loop (while seeding,
\* or during the sleep that ends a pass).
Tick ==
    /\ pc \in {"seed", "loop"}
    /\ cfg.max_time_s > 0
    /\ ~timeUp
    /\ Store(Elapse(Locals))
    /\ UNCHANGED <<probe, cfg, start_urls, pc, seed_i, links_seen, last_fetch>>

\* one round of "for raw in start_urls"
SeedOne(st, raw) ==
    LET cu == Canon[cfg.remove_tracking][raw]
    IN IF cu = "" THEN st
       ELSE IF HostOf[cu] # <<>> /\ ~_host_in_scope(HostOf[cu], cfg.apex) THEN st
       ELSE add_discovered(st, cu, "", 0, "page", TRUE)

Seed ==
    /\ pc = "seed"
    /\ seed_i <= Len(start_urls)
    /\ Store(SeedOne(Locals, start_urls[seed_i]))
    /\ seed_i' = seed_i + 1
    /\ pc' = IF seed_i = Len(start_urls) THEN "loop" ELSE "seed"
    /\ UNCHANGED <<probe, cfg, start_urls, links_seen, last_fetch>>

\* FinalReason with the two default reasons exchanged
FinalReasonSwapped(reason, front) ==
    IF reason # "" THEN reason
    ELSE IF front = {} THEN "stopped" ELSE "frontierEmpty"

\* "if not stop_reason" after the loop
FinalReason(reason, front) ==
    IF reason # "" THEN reason
    ELSE IF front = {} THEN "frontierEmpty" ELSE "stopped"

\* "while frontier" ends the loop
Exit ==
    /\ pc = "loop"
    /\ frontier = {}
    /\ Store([Locals EXCEPT !.stop_reason = FinalReason(@, frontier)])
    /\ pc' = "done"
    /\ UNCHANGED <<probe, cfg, start_urls, seed_i, links_seen, last_fetch>>

\* "if budget_hit(): break"
BudgetBreak ==
    /\ pc = "loop"
    /\ frontier # {}
    /\ BudgetReason(Locals) # ""
    /\ Store([budget_hit(Locals) EXCEPT !.stop_reason = FinalReason(@, frontier)])
    /\ pc' = "done"
    /\ UNCHANGED <<probe, cfg, start_urls, seed_i, links_seen, last_fetch>>

\* "if requests is None"
MissingLib ==
    /\ pc = "loop"
    /\ frontier # {}
    /\ BudgetReason(Locals) = ""
    /\ ~cfg.have_requests
    /\ Store([Locals EXCEPT !.stop_reason = FinalReason("missingRequestsLib", frontier)])
    /\ pc' = "done"
    /\ UNCHANGED <<probe, cfg, start_urls, seed_i, links_seen, last_fetch>>

\* PrioLess that orders the entries by insertion alone (a FIFO queue)
PrioLessBySeq(a, b) == a.seq < b.seq

\* the order of the heap entries ((-score, depth, seq), url); seq is unique
PrioLess(a, b) ==
    \/ a.negscore < b.negscore
    \/ a.negscore = b.negscore /\ a.depth < b.depth
    \/ a.negscore = b.negscore /\ a.depth = b.depth /\ a.seq < b.seq

\* heapq.heappop
HeapTop(front) == CHOOSE e \in front : \A o \in front \ {e} : PrioLess(e, o)

\* bool(r) of a requests.Response is r.ok
Truthy(status) == status < 400

\* the post-redirect alias: the popped node's parent, depth and kind
Alias(st, url, effective_url) ==
    IF effective_url # "" /\ effective_url # url /\ effective_url \notin DOMAIN st.discovered
    THEN LET known == url \in DOMAIN st.discovered
         IN add_discovered(st, effective_url,
                           IF known THEN st.discovered[url].parent ELSE "",
                           IF known THEN st.discovered[url].depth ELSE 0,
                           IF known THEN st.discovered[url].kind ELSE "page",
                           FALSE)
    ELSE st

\* ParentDepth that takes the depth of the popped URL, whatever the parent
ParentDepthOfPopped(st, parent, url) ==
    IF url \in DOMAIN st.discovered THEN st.discovered[url].depth ELSE 0

\* discovered.get(parent_canonical, discovered.get(url, {})).get("depth", 0)
ParentDepth(st, parent, url) ==
    IF parent \in DOMAIN st.discovered THEN st.discovered[parent].depth
    ELSE IF url \in DOMAIN st.discovered THEN st.discovered[url].depth
    ELSE 0

\* LinkDepth that gives a link the depth of its page
LinkDepthSame(parent_depth) == parent_depth

\* depth = parent_depth + 1
LinkDepth(parent_depth) == parent_depth + 1

\* one round of "for link in links"
LinkOne(st, link, parent_canonical, parent_depth) ==
    LET cu == Canon[cfg.remove_tracking][link]
    IN IF cu = "" THEN st
       ELSE IF HostOf[cu] = <<>> \/ ~_host_in_scope(HostOf[cu], cfg.apex) THEN st
       ELSE add_discovered(st, cu, parent_canonical, LinkDepth(parent_depth),
                           KindOf[cu], TRUE)

\* "for link in links", the set iterated in the order given; the clock
\* passes max_time_s before round late + 1 (never, when late < 0)
RECURSIVE LinkLoop(_, _, _, _, _)
LinkLoop(st, order, parent_canonical, parent_depth, late) ==
    IF order = <<>> THEN st
    ELSE LinkLoop(LinkOne(IF late = 0 THEN Elapse(st) ELSE st, Head(order),
                          parent_canonical, parent_depth),
                  Tail(order), parent_canonical, parent_depth, late - 1)

\* The loop body from the post-redirect canonicalization up to the link
\* loop, for a response r with r.url = final: the alias and the early
\* "continue"s.
Landed(st, url, final, status) ==
    Alias(st, url, IF Truthy(status) THEN Canon[cfg.remove_tracking][final] ELSE url)

\* parent_canonical
ParentCanonical(url, final, status) ==
    LET effective_url == IF Truthy(status) THEN Canon[cfg.remove_tracking][final] ELSE url
        base == Canon[cfg.remove_tracking][final]
    IN IF base # "" THEN base
       ELSE IF effective_url # "" THEN effective_url
       ELSE url

\* The loop body for a response r with r.url = final whose collaborators
\* return: the alias, the early "continue"s, and the link loop under the
\* parent it computes.
Respond(st, url, final, status, html, order, late) ==
    LET st1 == Landed(st, url, final, status)
        parent == ParentCanonical(url, final, status)
    IN IF ~Truthy(status) \/ status >= 400 \/ ~html THEN st1
       ELSE LinkLoop(st1, order, parent, ParentDepth(st1, parent, url), late)

\* the sets of at most n links, in every order of iteration
LinkOrders(n) ==
    UNION { {o \in [1..k -> LinkPool] : \A i, j \in 1..k : o[i] = o[j] => i = j} :
            k \in 0..n }

\* a failed request after which the URL is forgotten and queued again
FailedRetried(st, url) ==
    [st EXCEPT !.visited = @ \ {url},
               !.frontier = @ \cup {[negscore |-> 0, depth |-> 0, seq |-> st.seq, url |-> url]},
               !.seq = @ + 1,
               !.enqueued = @ \cup {url}]

\* "except Exception: continue": nothing is kept of a failed request
Failed(st, url) == st

\* the pass reaches the sleep at its end: a request that raises, a status
\* >= 400 and a body that is not HTML "continue" before it
Sleeps(outcome) == cfg.rate_limit_s > 0 /\ outcome = "html"

\* the canonical URLs of the links of a page that pass the scope test of the
\* link loop
InScopeLinks(order) ==
    {cu \in {Canon[cfg.remove_tracking][order[i]] : i \in DOMAIN order} :
        cu # "" /\ HostOf[cu] # <<>> /\ _host_in_scope(HostOf[cu], cfg.apex)}

\* what the Fetcher did with the request for url, for the record of the last
\* request: the final URL canonicalized, the outcome of the pass, whether
\* the final URL was unregistered when the request was sent, whether the
\* pass ended with the sleep, and for an HTML page the parent_canonical of
\* the link loop with the in-scope links it went through
Answer(st, url, final, outcome, order) ==
    [url |-> url, final |-> Canon[cfg.remove_tracking][final], outcome |-> outcome,
     fresh |-> Canon[cfg.remove_tracking][final] \notin DOMAIN st.discovered,
     slept |-> Sleeps(outcome),
     page |-> IF outcome = "html" THEN ParentCanonical(url, final, 200) ELSE "",
     links |-> IF outcome = "html" THEN InScopeLinks(order) ELSE {}]

\* One pass of the loop body.  The Fetcher raises, or answers with the final
\* URL, a status, a body that is HTML or not, and (for an HTML body) the
\* links extracted from it, those of the headless render included.  With a
\* time budget the clock may pass max_time_s while the request is out (slow)
\* or during the link loop (late).  On an HTML page discover_js_routes may
\* raise inside its try (js_raises: nothing is kept of it), and
\* headless_discover, called outside any try, may raise: the exception
\* leaves crawl() and no snapshot is returned.  A traced pass records the
\* Fetcher's answer in last_fetch.
Pass(traced) ==
    /\ pc = "loop"
    /\ frontier # {}
    /\ BudgetReason(Locals) = ""
    /\ cfg.have_requests
    /\ LET top == HeapTop(frontier)
           url == top.url
           popped == [Locals EXCEPT !.frontier = @ \ {top}, !.enqueued = @ \ {url}]
           st0 == [popped EXCEPT !.visited = @ \cup {url}, !.requests_made = @ + 1]
       IN IF url \in visited
          THEN Store(popped) /\ UNCHANGED <<links_seen, last_fetch>> /\ pc' = "loop"
          ELSE \/ /\ Store(Failed(st0, url))
                  /\ last_fetch' = IF traced THEN Answer(st0, url, url, "error", <<>>) ELSE last_fetch
                  /\ UNCHANGED links_seen
                  /\ pc' = "loop"
               \/ /\ Store(Respond(st0, url, url, 404, FALSE, <<>>, -1))
                  /\ last_fetch' = IF traced THEN Answer(st0, url, url, "status", <<>>) ELSE last_fetch
                  /\ UNCHANGED links_seen
                  /\ pc' = "loop"
               \/ \E final \in {url} \cup RedirectPool,
                     slow \in {FALSE} \cup {cfg.max_time_s > 0} :
                     LET got == IF slow THEN Elapse(st0) ELSE st0
                     IN \/ \E order \in LinkOrders(MaxLinks - links_seen), html \in BOOLEAN,
                              js_raises \in {FALSE} \cup {cfg.js} :
                              \E late \in {-1} \cup {k \in 1..(Len(order) - 1) :
                                                      cfg.max_time_s > 0 /\ ~slow} :
                                 /\ ~html => order = <<>> /\ ~js_raises
                                 /\ Store(Respond(got, url, final, 200, html, order, late))
                                 /\ last_fetch' = IF traced
                                            THEN Answer(st0, url, final,
                                                        IF html THEN "html" ELSE "body", order)
                                            ELSE last_fetch
                                 /\ links_seen' = links_seen + Len(order)
                                 /\ pc' = "loop"
                        \/ /\ cfg.headless
                           /\ Store(Landed(got, url, final, 200))
                           /\ last_fetch' = IF traced THEN Answer(st0, url, final, "render", <<>>)
                                      ELSE last_fetch
                           /\ UNCHANGED links_seen
                           /\ pc' = "aborted"
    /\ UNCHANGED <<probe, cfg, start_urls, seed_i>>

Fetch == Pass(FALSE)

\* a pass of the loop body that records the Fetcher's answer
FetchTraced == Pass(TRUE)

Next == Tick \/ Seed \/ Exit \/ BudgetBreak \/ MissingLib \/ Fetch

Spec == Init /\ [][Next]_vars

\* crawl() runs on its one thread without outside interruption: a pass that
\* can be taken is taken
FairSpec == Spec /\ WF_vars(Next)

NextTraced == Tick \/ Seed \/ Exit \/ BudgetBreak \/ MissingLib \/ FetchTraced

\* the crawl with the answer to the last request on record
TracedSpec == Init /\ [][NextTraced]_vars

-----------------------------------------------------------------------------
(* canonical_url and url_pattern_key on their own *)

\* segments of a path the canonicalizer is applied to
MaxSegs == 2

\* the segments: empty (a doubled or trailing slash), dot segments plain and
\* percent-encoded, a number, a name, an encoded slash, an encoded "%2F"
SegPool == { <<>>, <<".">>, <<".", ".">>, <<"a">>, <<"1">>, <<"%2E", "%2E">>,
             <<"a", "%2F", "b">>, <<"%25", "2", "F">> }

\* h.io. with the trailing dot of a fully qualified name
h_dot == << <<"h">>, <<"i", "o">>, <<>> >>

\* a port above the range
BigPort == 70000

\* what may follow the colon of a URL without "//": an address, a script, a
\* number, a name
OpaquePool == { <<"a", "@", "h", ".", "i", "o">>, <<"a", "l", "e", "r", "t", "(", "1", ")">>,
                <<"8", "0">>, <<"h", ".", "i", "o">>, <<>> }

\* the URLs the canonicalizer is applied to: with a netloc (a port that is
\* absent, the default, out of range or no number), and "scheme:path"
\* without one
ProbeUrls ==
    {Url(sc, ho, po, sg, qu, <<>>) :
        sc \in {"http", "https", "mailto"}, ho \in {h_apex, h_upper, h_dot},
        po \in {0, 80, BigPort, NotANumber},
        sg \in UNION {[1..n -> SegPool] : n \in 0..MaxSegs}, qu \in {<<>>, q_utm}}
    \cup {Url(sc, <<>>, 0, <<op>> \o sg, <<>>, <<>>) :
             sc \in {"http", "mailto", "javascript"}, op \in OpaquePool,
             sg \in {<<>>, << <<"a">> >>}}

\* a crawl that is not run
IdleCfg ==
    [apex |-> h_apex, max_requests |-> 0, max_nodes |-> 0, max_time_s |-> 0,
     max_depth |-> NoDepth, max_per_pattern |-> 0, rate_limit_s |-> 1,
     remove_tracking |-> TRUE, have_requests |-> FALSE, js |-> FALSE, headless |-> FALSE]

CanonInit ==
    /\ probe \in [stage : {"raw"}, raw : ProbeUrls, rt : BOOLEAN, once : {NoUrl},
                  twice : {NoUrl}]
    /\ cfg = IdleCfg
    /\ start_urls = <<>>
    /\ pc = "probe"
    /\ seed_i = 1
    /\ timeUp = FALSE
    /\ visited = {}
    /\ enqueued = {}
    /\ discovered = <<>>
    /\ edges = {}
    /\ host_seen = {}
    /\ pattern_counts = <<>>
    /\ suppressed_by_pattern = <<>>
    /\ requests_made = 0
    /\ max_depth_reached = 0
    /\ frontier = {}
    /\ seq = 0
    /\ stop_reason = ""
    /\ pushed = {}
    /\ links_seen = 0
    /\ last_fetch = NoLast

\* canonical_url(raw, remove_tracking=rt): the result, or the ValueError
\* that leaves it
CanonOnce ==
    /\ probe.stage = "raw"
    /\ probe' = IF canonical_url_raises(probe.raw)
                THEN [probe EXCEPT !.stage = "raised"]
                ELSE [probe EXCEPT !.stage = "once",
                                   !.once = canonical_url(probe.raw, probe.rt)]
    /\ UNCHANGED <<cfg, start_urls, pc, seed_i, timeUp, visited, enqueued, discovered,
                   edges, host_seen, pattern_counts, suppressed_by_pattern, requests_made,
                   max_depth_reached, frontier, seq, stop_reason, pushed, links_seen,
                   last_fetch>>

\* canonical_url applied to its own result
CanonTwice ==
    /\ probe.stage = "once"
    /\ probe.once # NoUrl
    /\ probe' = [probe EXCEPT !.stage = "twice", !.twice = canonical_url(probe.once, probe.rt)]
    /\ UNCHANGED <<cfg, start_urls, pc, seed_i, timeUp, visited, enqueued, discovered,
                   edges, host_seen, pattern_counts, suppressed_by_pattern, requests_made,
                   max_depth_reached, frontier, seq, stop_reason, pushed, links_seen,
                   last_fetch>>

CanonNext == CanonOnce \/ CanonTwice

CanonSpec == CanonInit /\ [][CanonNext]_vars

-----------------------------------------------------------------------------
(* Properties of the crawl state *)

\* the keys of the registry
Nodes == DOMAIN discovered

\* the registry nodes whose pattern key is p
NodesOfPattern(p) == {u \in Nodes : PatternOf[u] = p}

RECURSIVE SumOf(_)
\* sum(f.values())
SumOf(f) ==
    IF DOMAIN f = {} THEN 0
    ELSE LET k == CHOOSE x \in DOMAIN f : TRUE
         IN f[k] + SumOf([x \in DOMAIN f \ {k} |-> f[x]])

\* stats.patterns_suppressed_total of the snapshot
patterns_suppressed_total(sup) == SumOf(sup)

RECURSIVE MaxDepthOf(_)
\* the maximum depth over a set of registry keys, 0 for the empty set
MaxDepthOf(S) ==
    IF S = {} THEN 0
    ELSE LET u == CHOOSE x \in S : TRUE
         IN Max(discovered[u].depth, MaxDepthOf(S \ {u}))

\* C1: with maxPerPattern > 0, in every reachable state and for every pattern
\* key P, the number of registry nodes whose pattern key is P is at most
\* maxPerPattern, whatever the order of seeds, links and redirect aliases.
C1_PatternCap ==
    cfg.max_per_pattern > 0 =>
        \A u \in Nodes : Cardinality(NodesOfPattern(PatternOf[u])) <= cfg.max_per_pattern

\* C1 case: a pattern is at its cap and a further URL of that shape was
\* suppressed.
C1_Witness ==
    /\ cfg.max_per_pattern > 0
    /\ \E u \in Nodes :
          /\ Cardinality(NodesOfPattern(PatternOf[u])) = cfg.max_per_pattern
          /\ Get(suppressed_by_pattern, PatternOf[u]) > 0

\* C2: in every reachable state, the parent of every registry node is none
\* or a key of the registry, also for nodes discovered from a page whose fetch
\* was redirected to an effective URL.
C2_ParentIsRegistered ==
    \A u \in Nodes : discovered[u].parent = "" \/ discovered[u].parent \in Nodes

\* C3: in every reachable state, both ends of every edge are keys of the
\* registry.
C3_EdgeEndsRegistered ==
    \A e \in edges : e[1] \in Nodes /\ e[2] \in Nodes

\* C4: every registry node (seed, link-discovered or post-redirect alias) has
\* a host in scope of the apex.
C4_NodesInScope ==
    \A u \in Nodes : _host_in_scope(HostOf[u], cfg.apex)

\* C2 case: a link-discovered node whose parent, the effective URL of a
\* redirected fetch, was suppressed by the pattern cap and is not registered.
C2_Witness ==
    \E u \in Nodes :
        /\ discovered[u].parent # ""
        /\ discovered[u].parent \notin Nodes
        /\ Get(suppressed_by_pattern, PatternOf[discovered[u].parent]) > 0

\* C3 case: an edge whose source is not a key of the registry.
C3_Witness ==
    \E e \in edges : e[1] \notin Nodes /\ e[2] \in Nodes

\* C4 case: a post-redirect alias on a host outside the apex is registered.
C4_Witness ==
    \E u \in Nodes :
        /\ ~_host_in_scope(HostOf[u], cfg.apex)
        /\ u \notin pushed
        /\ visited # {}

\* C5: in every reachable state, every registry node has depth >= 0, and every
\* node whose parent is not none has depth >= 1 (seeds are at depth 0;
\* redirect aliases inherit the popped node's depth and parent together).
C5_DepthOfParented ==
    \A u \in Nodes :
        /\ discovered[u].depth >= 0
        /\ discovered[u].parent # "" => discovered[u].depth >= 1

\* C5 case: with no depth limit a page-like node that has a parent and was
\* never pushed is a redirect alias; it carries its popped node's depth.
C5_Witness ==
    /\ cfg.max_depth = NoDepth
    /\ \E u \in Nodes :
          /\ discovered[u].kind \in {"page", "api"}
          /\ u \notin pushed
          /\ discovered[u].parent # ""
          /\ discovered[u].depth >= 1

\* C6: in every reachable state, max_depth_reached equals the maximum depth
\* over all registry nodes, and equals 0 when the registry is empty.
C6_MaxDepthReached == max_depth_reached = MaxDepthOf(Nodes)

\* C6 case: the registry holds a never-pushed node of depth 0 (the alias of
\* a seed) next to deeper nodes, and the maximum is above 0.
C6_Witness ==
    /\ max_depth_reached >= 1
    /\ \E u \in Nodes : discovered[u].depth = 0 /\ u \notin pushed

\* C7: in every reachable state, the fetched (visited) URLs are a subset of
\* the URLs ever pushed onto the frontier, which are a subset of the registry
\* keys.
C7_FetchedPushedRegistered == visited \subseteq pushed /\ pushed \subseteq Nodes

\* C7 case: both inclusions are strict, and a URL was suppressed.
C7_Witness ==
    /\ visited # {}
    /\ visited # pushed
    /\ pushed # Nodes
    /\ DOMAIN suppressed_by_pattern # {}

\* C8: only nodes of kind page or api are ever pushed onto the frontier; a
\* node of kind asset or feed is registered but never enqueued and never
\* fetched.
C8_OnlyPageLikePushed ==
    \A u \in Nodes :
        discovered[u].kind \in {"asset", "feed"} =>
            /\ u \notin pushed
            /\ u \notin visited
            /\ u \notin enqueued
            /\ \A e \in frontier : e.url # u

\* C8 case: an asset and a feed are registered, within any depth limit, and
\* the crawl has run out of URLs to fetch.
C8_Witness ==
    /\ pc = "done"
    /\ stop_reason = "frontierEmpty"
    /\ \E a, f \in Nodes :
          /\ discovered[a].kind = "asset"
          /\ discovered[f].kind = "feed"
          /\ cfg.max_depth = NoDepth

\* C9: in every reachable state, nodes_fetched <= nodes_discovered and
\* nodes_fetched <= requests_made, and with maxRequests > 0,
\* requests_made <= maxRequests.
C9_FetchCounts ==
    /\ Cardinality(visited) <= Cardinality(Nodes)
    /\ Cardinality(visited) <= requests_made
    /\ cfg.max_requests > 0 => requests_made <= cfg.max_requests

\* C9 case: the request budget is used up while URLs remain to fetch.
C9_Witness ==
    /\ cfg.max_requests > 0
    /\ requests_made = cfg.max_requests
    /\ Cardinality(visited) = requests_made
    /\ frontier # {}

\* calls of add_discovered in the shapes crawl() makes them, for any URL: a
\* seed, an alias of a seed, a page link and an asset link of a seed page
CallArgs ==
    [child_url : Urls, parent_url : {""}, depth : {0}, kind : {"page"},
     from_frontier : BOOLEAN]
    \cup [child_url : Urls, parent_url : {"http://h.io/"}, depth : {1},
          kind : {"page", "asset"}, from_frontier : {TRUE}]

\* C10: with maxNodes > 0 the registry never holds more than maxNodes nodes;
\* add_discovered registers nothing (registry, edges, frontier and pattern
\* counts unchanged) whenever a budget axis is already hit at the call.
C10_NodeBudget ==
    /\ cfg.max_nodes > 0 => Cardinality(Nodes) <= cfg.max_nodes
    /\ BudgetReason(Locals) # "" =>
          \A a \in CallArgs :
              LET st == add_discovered(Locals, a.child_url, a.parent_url, a.depth,
                                       a.kind, a.from_frontier)
              IN /\ st.discovered = discovered
                 /\ st.edges = edges
                 /\ st.frontier = frontier
                 /\ st.pattern_counts = pattern_counts

\* C10 case: the registry is full and add_discovered has returned on the
\* node budget inside the loop.
C10_Witness ==
    /\ cfg.max_nodes > 0
    /\ Cardinality(Nodes) = cfg.max_nodes
    /\ stop_reason = "maxNodes"
    /\ pc = "loop"

\* C11: when maxDepth is set, no URL is ever pushed onto the frontier, and
\* none is ever fetched, with a recorded depth greater than maxDepth; such a
\* URL is still registered as a node.
C11_DepthLimit ==
    cfg.max_depth # NoDepth =>
        /\ \A u \in (pushed \cup visited) \cap Nodes : discovered[u].depth <= cfg.max_depth
        /\ \A e \in frontier : e.depth <= cfg.max_depth
        /\ pushed \cup visited \subseteq Nodes

\* C11 case: a page-like link one level below the depth limit is registered
\* and was never pushed.
C11_Witness ==
    /\ cfg.max_depth # NoDepth
    /\ \E u \in Nodes :
          /\ discovered[u].depth > cfg.max_depth
          /\ discovered[u].kind \in {"page", "api"}
          /\ discovered[u].parent \in visited
          /\ u \notin pushed

\* calls of add_discovered for a URL that is already registered, as a page
\* link from any parent at depths 0 to 2
RepeatCalls ==
    [child_url : Nodes, parent_url : {""} \cup Nodes, depth : 0..2,
     kind : {"page"}, from_frontier : {TRUE}]

\* a registered node keeps its record and stays registered
NodesKept == \A u \in Nodes : u \in DOMAIN discovered' /\ discovered'[u] = discovered[u]

\* add_discovered for a registered URL changes none of the crawl's locals
RepeatCallsIdle ==
    \A a \in RepeatCalls :
        LET st == add_discovered(Locals, a.child_url, a.parent_url, a.depth,
                                 a.kind, a.from_frontier)
        IN /\ st.discovered = discovered
           /\ st.edges = edges
           /\ st.pattern_counts = pattern_counts
           /\ st.suppressed_by_pattern = suppressed_by_pattern
           /\ st.host_seen = host_seen
           /\ st.frontier = frontier

\* C12: once a node is in the registry its depth, parent, score and kind
\* never change and it is never removed; a later add_discovered call for the
\* same canonical URL, from any parent at any depth, leaves registry, edges,
\* pattern counts, suppressed counter, host-seen set and frontier unchanged.
C12_FirstDiscoveryKept == [][NodesKept]_vars /\ []RepeatCallsIdle

\* C12 case: with no budget and no pattern cap, a fetched seed page returned
\* two distinct links and the registry still holds the seed alone, so an
\* in-scope link was the registered seed itself.
C12_Witness ==
    /\ cfg.max_time_s = 0 /\ cfg.max_requests = 0 /\ cfg.max_nodes = 0
    /\ cfg.max_per_pattern = 0
    /\ links_seen = 2
    /\ Cardinality(Nodes) = 1

\* the stop reasons of the budget axes
BudgetAxes == {"maxTime", "maxRequests", "maxNodes"}

\* a recorded budget axis is not replaced
AxisKept == stop_reason \in BudgetAxes => stop_reason' = stop_reason

\* C13: the reported stop_reason is the budget axis that was hit first during
\* the crawl, not the axis found by the last check: once a check has recorded
\* one axis, an axis that becomes hit afterwards does not replace it.
C13_FirstHitKept ==
    [][AxisKept]_vars

\* C14: at a budget check at which several axes are hit the reason recorded
\* follows the precedence maxTime, maxRequests, maxNodes; a crawl that breaks
\* at a check with the time budget elapsed ends with stop_reason = maxTime.
C14_Precedence ==
    LET time == TimeHit(timeUp, cfg.max_time_s)
        reqs == RequestsHit(requests_made, cfg.max_requests)
        nodes == NodesHit(Cardinality(Nodes), cfg.max_nodes)
        now == budget_hit(Locals).stop_reason
    IN /\ time => now = "maxTime"
       /\ ~time /\ reqs => now = "maxRequests"
       /\ ~time /\ ~reqs /\ nodes => now = "maxNodes"
       /\ pc = "done" /\ frontier # {} =>
             /\ time => stop_reason = "maxTime"
             /\ ~time /\ reqs => stop_reason = "maxRequests"
             /\ ~time /\ ~reqs /\ nodes => stop_reason = "maxNodes"

\* C14 case: the loop broke at a check with the time and the request budget
\* both hit, and with the time budget hit alone.
C14_Witness ==
    /\ pc = "done"
    /\ frontier # {}
    /\ stop_reason = "maxTime"
    /\ RequestsHit(requests_made, cfg.max_requests)

\* C15: if the main loop ends because the frontier became empty and no budget
\* check reported a hit during the crawl, stop_reason is frontierEmpty; and
\* whenever the snapshot reports frontierEmpty, frontier_remaining is 0.
C15_FrontierEmpty ==
    pc = "done" =>
        /\ frontier = {} /\ stop_reason \notin BudgetAxes => stop_reason = "frontierEmpty"
        /\ stop_reason = "frontierEmpty" => frontier = {}

\* C15 case: a crawl that fetched pages and registered links ran out of
\* frontier with no budget set.
C15_Witness ==
    /\ pc = "done"
    /\ stop_reason = "frontierEmpty"
    /\ cfg.max_time_s = 0 /\ cfg.max_requests = 0 /\ cfg.max_nodes = 0
    /\ requests_made >= 2
    /\ edges # {}

\* C16: whenever no Fetcher is available, the crawl terminates with
\* stop_reason = missingRequestsLib and requests_made = 0, for every seed list
\* and every budget configuration.
C16_MissingLib ==
    ~cfg.have_requests /\ pc = "done" =>
        stop_reason = "missingRequestsLib" /\ requests_made = 0

\* C16 case: without a Fetcher, the crawl of seeds that are all out of scope
\* ends with an empty frontier and reports frontierEmpty.
C16_Witness ==
    /\ ~cfg.have_requests
    /\ pc = "done"
    /\ stop_reason = "frontierEmpty"
    /\ cfg.max_time_s = 0

\* C17: for every seed list, budget configuration and behaviour of the
\* Fetcher and the collaborators, the crawl eventually leaves the main loop
\* and produces a result snapshot; it never aborts without one.
C17_SnapshotProduced == <>(pc = "done")

\* C18: a failure of the JS-route collaborator or of the headless renderer on
\* a fetched page is swallowed: the error does not propagate out of the crawl.
C18_CollaboratorFailureSwallowed == pc \in {"seed", "loop", "done"}

\* C18 case: the headless renderer failed on the page of the first fetch and
\* the exception ended the crawl.
C18_Witness ==
    /\ cfg.headless
    /\ pc = "aborted"
    /\ requests_made = 1

\* every request is for a URL not requested before, and no URL that was
\* requested waits in the frontier
FetchedOnce ==
    /\ requests_made = Cardinality(visited)
    /\ \A e \in frontier : e.url \notin visited

\* a pass whose request raises counts the request, marks the URL visited and
\* leaves the registry, the edges and the frontier entries of other URLs as
\* they were; the loop goes on
ErrorPassIdle ==
    /\ visited \subseteq visited'
    /\ (requests_made' # requests_made /\ last_fetch'.outcome = "error") =>
           /\ requests_made' = requests_made + 1
           /\ last_fetch'.url \in visited' \ visited
           /\ discovered' = discovered
           /\ edges' = edges
           /\ frontier' \subseteq frontier
           /\ pc' = "loop"

\* C19: every canonical URL is fetched at most once: when the request for a
\* popped URL raises, the URL stays visited and counted in requests_made, no
\* node or edge is added, it never returns to the frontier and the loop goes on
C19_FetchedOnce == []FetchedOnce /\ [][ErrorPassIdle]_vars

\* C19 case: the first request raised, the loop went on to a second URL whose
\* request raised too, and the crawl ended with both URLs visited
C19_Witness ==
    /\ last_fetch.outcome = "error"
    /\ requests_made = 2
    /\ edges = {}
    /\ Cardinality(Nodes) = 2
    /\ visited = Nodes
    /\ pc = "done"


\* C20: after the fetch of a popped URL u whose final URL canonicalizes to e,
\* with e different from u and not registered before, both u and e are
\* registry keys, e carries the depth, parent and kind of u, and e was not
\* pushed onto the frontier.
C20_AliasRegistered ==
    LET u == last_fetch.url
        e == last_fetch.final
    IN (/\ last_fetch.outcome \in {"body", "html", "render"}
        /\ e # ""
        /\ e # u
        /\ last_fetch.fresh) =>
           /\ u \in Nodes
           /\ e \in Nodes
           /\ discovered[e].depth = discovered[u].depth
           /\ discovered[e].parent = discovered[u].parent
           /\ discovered[e].kind = discovered[u].kind
           /\ e \notin pushed

\* C20 case: the request for a popped URL was answered from another URL that
\* was not registered, and after the pass that URL is still not registered
C20_Witness ==
    /\ last_fetch.outcome = "html"
    /\ last_fetch.final \notin {"", last_fetch.url}
    /\ last_fetch.fresh
    /\ last_fetch.url \in Nodes
    /\ last_fetch.final \notin Nodes

\* C21: when both https://h/ and http://h/ are given as seeds and host h has
\* not been seen before, the https URL is popped from the frontier before the
\* http URL, for either order of the two seeds in the seed list.
C21_HttpsFirst ==
    ({"https://h.io/", "http://h.io/"} \subseteq pushed /\ "http://h.io/" \in visited) =>
        "https://h.io/" \in visited

\* C21 case: both seeds were pushed, http://h.io/ first, and the http seed was
\* popped and fetched while the https seed waits in the frontier
C21_Witness ==
    /\ start_urls = <<"http://h.io/", "https://h.io/">>
    /\ {"https://h.io/", "http://h.io/"} \subseteq pushed
    /\ visited = {"http://h.io/"}
    /\ \E e \in frontier : e.url = "https://h.io/"

\* a call of add_discovered for an unregistered URL whose pattern is at the
\* cap, with no budget hit
CappedCall(c) ==
    /\ cfg.max_per_pattern > 0
    /\ c.child_url \notin Nodes
    /\ BudgetReason(Locals) = ""
    /\ Get(pattern_counts, PatternOf[c.child_url]) >= cfg.max_per_pattern

\* C22: a call of add_discovered for an unregistered URL whose pattern count
\* has reached maxPerPattern (> 0), with no budget hit, raises
\* patterns_suppressed_total by exactly 1 and leaves the registry, the edges,
\* the frontier, the pattern counts and the host-seen set unchanged; a
\* pattern with suppressions holds exactly maxPerPattern nodes.
C22_SuppressionFrame ==
    /\ \A c \in CallArgs :
          CappedCall(c) =>
             LET st == add_discovered(Locals, c.child_url, c.parent_url, c.depth, c.kind,
                                      c.from_frontier)
             IN /\ patterns_suppressed_total(st.suppressed_by_pattern)
                      = patterns_suppressed_total(suppressed_by_pattern) + 1
                /\ st.discovered = discovered
                /\ st.edges = edges
                /\ st.frontier = frontier
                /\ st.pattern_counts = pattern_counts
                /\ st.host_seen = host_seen
    /\ \A p \in DOMAIN suppressed_by_pattern :
          suppressed_by_pattern[p] > 0 =>
             /\ cfg.max_per_pattern > 0
             /\ Cardinality(NodesOfPattern(p)) = cfg.max_per_pattern

\* C22 case: one page gave two links of one pattern under cap 1: one node of
\* the pattern is registered with the page as parent, the other link was
\* suppressed, and a further call for it would be suppressed again
C22_Witness ==
    /\ cfg.max_per_pattern = 1
    /\ \E u \in Nodes :
          /\ discovered[u].parent # ""
          /\ Get(suppressed_by_pattern, PatternOf[u]) = 1
          /\ patterns_suppressed_total(suppressed_by_pattern) = 1
    /\ \E c \in CallArgs : c.parent_url # "" /\ CappedCall(c)

\* C23: in every reachable state no canonical URL occurs more than once in
\* the frontier, and the enqueued set holds the URLs of the frontier.
C23_EnqueuedOnce ==
    /\ \A a, b \in frontier : a.url = b.url => a = b
    /\ enqueued = {e.url : e \in frontier}

\* C23 case: a page was fetched whose link was already waiting in the
\* frontier (pushed from another page), and it waits there once
C23_Witness ==
    \E e \in frontier :
        /\ discovered[e.url].parent # ""
        /\ discovered[e.url].parent \in visited
        /\ Cardinality(visited) >= 2
        /\ links_seen = 2
        /\ Cardinality(Nodes) = Cardinality(visited) + 1

\* the entry a pop takes away is the least of the frontier under
\* (-score, depth, insertionSeq)
PopsLeast ==
    \A e \in frontier \ frontier' :
        \A o \in frontier \ {e} :
            \/ -e.negscore > -o.negscore
            \/ e.negscore = o.negscore /\ e.depth < o.depth
            \/ e.negscore = o.negscore /\ e.depth = o.depth /\ e.seq < o.seq

\* C24: every pop removes from the frontier the entry that is least under the
\* key (-score, depth, insertionSeq): the highest score first, among equal
\* scores the smallest depth, among equal score and depth the earliest pushed.
C24_PopsLeast == [][PopsLeast]_vars

\* C24 case: a URL was popped for its score ahead of an entry that is not
\* deeper and was in the frontier with it
C24_Witness ==
    \E e \in frontier, u \in visited :
        /\ u \in Nodes
        /\ e.url \in Nodes
        /\ discovered[u].parent = discovered[e.url].parent
        /\ discovered[u].score > -e.negscore
        /\ discovered[u].depth >= e.depth

\* a request that follows another one is sent after the sleep of the pass
\* that made the earlier request
FetchAfterSleep ==
    (cfg.rate_limit_s > 0 /\ requests_made >= 1 /\ requests_made' = requests_made + 1) =>
        last_fetch.slept

\* C25: with a positive rate limit, between any two consecutive fetches of a
\* crawl the inter-request sleep is executed, whatever the outcome of the
\* earlier fetch (success, transport error, status >= 400, non-HTML body).
C25_SleepBetweenFetches == [][FetchAfterSleep]_vars

\* C25 case: two requests were made and the pass of the first one, which got
\* no HTML page, ended without the sleep
C25_Witness ==
    /\ cfg.rate_limit_s > 0
    /\ requests_made = 1
    /\ last_fetch.outcome \in {"error", "status", "body"}
    /\ ~last_fetch.slept
    /\ frontier # {}
    /\ BudgetReason(Locals) = ""
    /\ pc = "loop"

\* C27: edges reflect the observing page: whenever a successfully fetched
\* HTML page s yields an in-scope link whose canonical URL t is a registry
\* key, the edge (s, t) is in the edge set, also when t was first discovered
\* from a different parent.
C27_EdgesOfObserver ==
    last_fetch.outcome = "html" =>
        \A t \in last_fetch.links \cap Nodes : <<last_fetch.page, t>> \in edges

\* C27 case: the page of the last request linked to a node that an earlier
\* page had discovered, and no edge from the later page to the node exists
C27_Witness ==
    /\ last_fetch.outcome = "html"
    /\ last_fetch.page \in Nodes
    /\ \E t \in last_fetch.links \cap Nodes :
          /\ t # last_fetch.page
          /\ discovered[t].parent \notin {"", last_fetch.page}
          /\ <<discovered[t].parent, t>> \in edges
          /\ <<last_fetch.page, t>> \notin edges

\* a call of add_discovered that inserts a node: the URL is unregistered, no
\* budget is hit and the pattern cap does not suppress it
InsertingCall(c) ==
    /\ c.child_url \notin Nodes
    /\ BudgetReason(Locals) = ""
    /\ ~(cfg.max_per_pattern > 0
         /\ Get(pattern_counts, PatternOf[c.child_url]) >= cfg.max_per_pattern)

\* C26: for every inserted node and every budget configuration (including
\* maxPerPattern = 0), the repeat-pattern penalty in its recorded score is
\* min(80, 8*k), k being the number of nodes with the same pattern key that
\* were registered before it.
C26_PenaltyOfEarlierNodes ==
    \A c \in CallArgs :
        InsertingCall(c) =>
           LET st == add_discovered(Locals, c.child_url, c.parent_url, c.depth, c.kind,
                                    c.from_frontier)
               k == Cardinality(NodesOfPattern(PatternOf[c.child_url]))
           IN /\ c.child_url \in DOMAIN st.discovered
              /\ st.discovered[c.child_url].score
                    = _priority_score(UrlOf[c.child_url], host_seen, k)

\* C26 case: without a pattern cap two nodes of one pattern key are
\* registered, and the later one carries no penalty in its score
C26_Witness ==
    /\ cfg.max_per_pattern = 0
    /\ start_urls = <<"https://h.io/", "http://h.io/">>
    /\ {"https://h.io/", "http://h.io/"} \subseteq Nodes
    /\ PatternOf["https://h.io/"] = PatternOf["http://h.io/"]
    /\ discovered["http://h.io/"].score = 0

\* the state after the pass that pops the top of the frontier and gets an
\* HTML page, not redirected, whose links are iterated in the given order
AfterPage(order) ==
    LET top == HeapTop(frontier)
        popped == [Locals EXCEPT !.frontier = @ \ {top}, !.enqueued = @ \ {top.url}]
        st0 == [popped EXCEPT !.visited = @ \cup {top.url}, !.requests_made = @ + 1]
    IN Respond(st0, top.url, top.url, 200, TRUE, order, -1)

\* a pass is due, without a time budget
PageDue ==
    /\ pc = "loop"
    /\ frontier # {}
    /\ BudgetReason(Locals) = ""
    /\ cfg.have_requests
    /\ cfg.max_time_s = 0
    /\ HeapTop(frontier).url \notin visited

\* C28: two crawl runs with identical seeds, configuration and identical
\* Fetcher/JS/headless outputs (and no time-budget hit) produce identical
\* snapshots, independent of the order in which the links of one page are
\* iterated: the two orders of a page's two links leave the same registry
\* nodes (depth, parent, score), edges, suppression count and maximum depth.
C28_OrderIndependent ==
    PageDue =>
        \A a, b \in LinkPool :
            LET r1 == AfterPage(<<a, b>>)
                r2 == AfterPage(<<b, a>>)
            IN /\ r1.discovered = r2.discovered
               /\ r1.edges = r2.edges
               /\ patterns_suppressed_total(r1.suppressed_by_pattern)
                     = patterns_suppressed_total(r2.suppressed_by_pattern)
               /\ r1.max_depth_reached = r2.max_depth_reached

\* C28 case: under cap 1 the first page to fetch may give two links of one
\* pattern; one order registers http://h.io/item/1, the other http://h.io/item/2
C28_Witness ==
    /\ PageDue
    /\ cfg.max_per_pattern = 1
    /\ links_seen = 0
    /\ LET a == "http://h.io/item/1"
           b == "http://H.IO:80/item//./x/../2?utm_source=x#top"
       IN /\ "http://h.io/item/1" \in DOMAIN AfterPage(<<a, b>>).discovered
          /\ "http://h.io/item/1" \notin DOMAIN AfterPage(<<b, a>>).discovered
          /\ "http://h.io/item/2" \in DOMAIN AfterPage(<<b, a>>).discovered

\* C29: canonicalize is idempotent: for every input u for which
\* canonicalize(u) is defined, canonicalize(canonicalize(u)) equals
\* canonicalize(u), including paths containing percent-encoded slashes or dot
\* segments.
C29_Idempotent == probe.stage = "twice" => probe.twice = probe.once

\* C29 case: a path with a percent-encoded dot segment, whose canonical form
\* holds the decoded ".." that a second canonicalization resolves
C29_Witness ==
    /\ probe.stage = "twice"
    /\ probe.raw.segs = << <<"a">>, <<"%2E", "%2E">> >>
    /\ probe.once.segs = << <<"a">>, <<".", ".">> >>
    /\ probe.twice.segs = <<>>

\* C30: for every URL u that canonicalizes, patternKey(u) equals
\* patternKey(canonicalize(u)).
C30_PatternKeyOfCanonical ==
    (probe.stage \in {"once", "twice"} /\ probe.once # NoUrl) =>
        url_pattern_key(probe.raw) = url_pattern_key(probe.once)

\* C30 case: a URL with a plain dot segment canonicalizes to a URL without
\* it, and the pattern key of the URL keeps the dot segment
C30_Witness ==
    /\ probe.stage = "once"
    /\ probe.raw.segs = << <<".">>, <<"1">> >>
    /\ probe.once.segs = << <<"1">> >>
    /\ url_pattern_key(probe.raw).path = << <<".">>, t_int >>
    /\ url_pattern_key(probe.once).path = << t_int >>

\* C31: every registry key is a fixed point of canonicalize and an HTTP(S)
\* URL, and no two distinct registry keys canonicalize to the same URL, for
\* every value of the removeTracking option of the crawl.
C31_KeysCanonical ==
    /\ \A u \in Nodes :
          /\ Canon[cfg.remove_tracking][u] = u
          /\ UrlOf[u].scheme \in {"http", "https"}
    /\ \A u, v \in Nodes :
          Canon[cfg.remove_tracking][u] = Canon[cfg.remove_tracking][v] => u = v

\* C31 case: the seed http://h.io/%2E%2E is registered under its canonical
\* URL http://h.io/.., which canonicalizes to http://h.io/
C31_Witness ==
    /\ "http://h.io/.." \in Nodes
    /\ Canon[cfg.remove_tracking]["http://h.io/.."] = "http://h.io/"

\* C32: canonicalize never raises: for every input, including one with a
\* non-HTTP(S) scheme (mailto:, javascript:) or a non-numeric or out-of-range
\* port, it returns none instead of throwing, and it returns none whenever
\* the input's scheme is not http or https.
C32_NeverRaises ==
    /\ probe.stage # "raised"
    /\ (probe.stage \in {"once", "twice"} /\ probe.raw.scheme \notin {"http", "https"}) =>
          probe.once = NoUrl

\* C32 case: canonicalize was applied to http://h.io:70000/ and raised
C32_Witness ==
    /\ probe.stage = "raised"
    /\ probe.raw.scheme = "http"
    /\ probe.raw.host = h_apex
    /\ probe.raw.port = BigPort
    /\ probe.raw.segs = <<>>

------------------------------------------------------------------------------
(* The scope resolver on its own: _host_in_scope applied to a host and an
   apex, the apex as given or as apex_of returns it (run passes
   apex_of(host) to crawl). *)

h_evil == << <<"h">>, <<"i", "o">>, <<"e", "v", "i", "l">>, <<"t", "e", "s", "t">> >>

h_ip == << <<"1", "0">>, <<"0">>, <<"0">>, <<"1">> >>

h_under_ip == << <<"a">>, <<"1", "0">>, <<"0">>, <<"0">>, <<"1">> >>

\* h.io:80
h_port == << <<"h">>, <<"i", "o", ":", "8", "0">> >>

\* a.h.io:80
h_under_port == << <<"a">>, <<"h">>, <<"i", "o", ":", "8", "0">> >>

\* the hosts and the apexes the resolver is applied to; <<>> is the empty text
ScopeHosts == { <<>>, h_apex, h_upper, h_api, h_out, h_dot, h_evil, h_ip, h_under_ip,
                h_port, h_under_port }

ScopeApexes == { <<>>, h_apex, h_upper, h_ip, h_port }

ScopeInit ==
    /\ probe \in [stage : {"hosts"}, host : ScopeHosts, apex : ScopeApexes,
                  in_scope : {FALSE}]
    /\ cfg = IdleCfg
    /\ start_urls = <<>>
    /\ pc = "probe"
    /\ seed_i = 1
    /\ timeUp = FALSE
    /\ visited = {}
    /\ enqueued = {}
    /\ discovered = <<>>
    /\ edges = {}
    /\ host_seen = {}
    /\ pattern_counts = <<>>
    /\ suppressed_by_pattern = <<>>
    /\ requests_made = 0
    /\ max_depth_reached = 0
    /\ frontier = {}
    /\ seq = 0
    /\ stop_reason = ""
    /\ pushed = {}
    /\ links_seen = 0
    /\ last_fetch = NoLast

\* _host_in_scope(host, apex)
ScopeDirect ==
    /\ probe.stage = "hosts"
    /\ probe' = [probe EXCEPT !.stage = "direct",
                              !.in_scope = _host_in_scope(probe.host, probe.apex)]
    /\ UNCHANGED <<cfg, start_urls, pc, seed_i, timeUp, visited, enqueued, discovered,
                   edges, host_seen, pattern_counts, suppressed_by_pattern, requests_made,
                   max_depth_reached, frontier, seq, stop_reason, pushed, links_seen,
                   last_fetch>>

\* _host_in_scope(host, apex_of(apex))
ScopeViaApexOf ==
    /\ probe.stage = "hosts"
    /\ probe' = [probe EXCEPT !.stage = "resolved",
                              !.in_scope = _host_in_scope(probe.host, apex_of(probe.apex))]
    /\ UNCHANGED <<cfg, start_urls, pc, seed_i, timeUp, visited, enqueued, discovered,
                   edges, host_seen, pattern_counts, suppressed_by_pattern, requests_made,
                   max_depth_reached, frontier, seq, stop_reason, pushed, links_seen,
                   last_fetch>>

ScopeNext == ScopeDirect \/ ScopeViaApexOf

ScopeSpec == ScopeInit /\ [][ScopeNext]_vars

\* C33: inScope(host, apex) compares lowercased values and is true exactly
\* when both are non-empty and either the apex is an IPv4 literal or of the
\* form host:port and the host equals it, or otherwise the host equals the
\* apex or ends with "." + apex.
C33_InScope ==
    probe.stage \in {"direct", "resolved"} =>
        LET h == [i \in DOMAIN probe.host |-> Lower(probe.host[i])]
            a == [i \in DOMAIN probe.apex |-> Lower(probe.apex[i])]
            exact == is_ip_hostname(a) \/ \E i \in DOMAIN a : \E j \in DOMAIN a[i] : a[i][j] = ":"
        IN probe.in_scope <=>
              /\ h # <<>>
              /\ a # <<>>
              /\ IF exact THEN h = a
                 ELSE h = a \/ (Len(h) > Len(a) /\ SubSeq(h, Len(h) - Len(a) + 1, Len(h)) = a)

\* C33 case: the resolver was asked for host a.h.io:80 under the apex
\* h.io:80 as apex_of returns it, and accepted it
C33_Witness ==
    /\ probe.stage = "resolved"
    /\ probe.host = h_under_port
    /\ probe.apex = h_port
    /\ probe.in_scope

\* a step that begins with a budget axis hit, or that makes the last
\* permitted request, adds no node, no edge and no frontier entry
BudgetFrozen ==
    (\/ BudgetReason(Locals) # ""
     \/ (requests_made' # requests_made /\ RequestsHit(requests_made', cfg.max_requests)))
    => /\ discovered' = discovered
       /\ edges' = edges
       /\ frontier' \subseteq frontier

\* C34: once any budget axis is hit (requests_made has reached maxRequests,
\* the registry has reached maxNodes, or maxTime has elapsed) no node, edge
\* or frontier entry is added for the rest of the crawl; in particular the
\* links of the page fetched by the last permitted request are never
\* registered.
C34_FrozenAfterBudget == [][BudgetFrozen]_vars

\* C34 case: with no pattern cap, the last permitted request fetched a page
\* with two links, of which at most one is out of scope and none is a seed,
\* and the registry holds the two seeds alone
C34_Witness ==
    /\ cfg.max_requests > 0
    /\ cfg.max_per_pattern = 0
    /\ requests_made = cfg.max_requests
    /\ links_seen = 2
    /\ stop_reason = "maxRequests"
    /\ Nodes = {"https://h.io/", "http://h.io/"}

\* C35: every registry node whose parent is itself a registry key lies one
\* level below that parent, also when the node was discovered from a page
\* reached through a redirect or is a redirect alias.
C35_ParentDepth ==
    \A n \in Nodes :
        discovered[n].parent \in Nodes =>
            discovered[n].depth = discovered[discovered[n].parent].depth + 1

\* C35 case: a node at depth 2 hangs under a registered parent that was
\* never fetched itself, so its page was reached through a redirect
C35_Witness ==
    \E n \in Nodes :
        /\ discovered[n].parent \in Nodes
        /\ discovered[n].parent \notin visited
        /\ discovered[n].depth = 2

C37_EnqueuedVisited ==
    /\ enqueued = {e.url : e \in frontier}
    /\ enqueued \cap visited = {}
    /\ Cardinality(visited) = requests_made

\* C37 case: two requests were made, a URL discovered on a fetched page
\* waits in the frontier, and one fetched URL has no child in the registry
C37_Witness ==
    /\ requests_made = 2
    /\ \E u \in enqueued : discovered[u].parent \in visited
    /\ \E u \in visited : \A v \in Nodes : discovered[v].parent # u

\* C38: the snapshot's stop_reason is always exactly one of frontierEmpty,
\* maxTime, maxRequests, maxNodes or missingRequestsLib; the value stopped is
\* never reported, and a reported budget reason implies that budget's
\* condition holds at snapshot time.
C38_StopReason ==
    /\ stop_reason # "stopped"
    /\ pc = "done" =>
          /\ stop_reason \in {"frontierEmpty", "maxTime", "maxRequests", "maxNodes",
                              "missingRequestsLib"}
          /\ stop_reason = "maxTime" => cfg.max_time_s > 0 /\ timeUp
          /\ stop_reason = "maxRequests" =>
                cfg.max_requests > 0 /\ requests_made >= cfg.max_requests
          /\ stop_reason = "maxNodes" =>
                cfg.max_nodes > 0 /\ Cardinality(Nodes) >= cfg.max_nodes

\* C38 case: the crawl ended on an empty frontier after a request, with the
\* node budget recorded by an add_discovered call as its stop reason
C38_Witness ==
    /\ pc = "done"
    /\ stop_reason = "maxNodes"
    /\ frontier = {}
    /\ requests_made >= 1

\* C39: when maxPerPattern > 0, patternCounts[P] equals the number of
\* registry nodes whose pattern key is P, for every pattern key P.
C39_PatternCounts ==
    cfg.max_per_pattern > 0 =>
        \A p \in DOMAIN pattern_counts \cup {PatternOf[u] : u \in Nodes} :
            Get(pattern_counts, p) = Cardinality(NodesOfPattern(p))

\* C39 case: under a pattern cap the registry holds a seed, a redirect alias
\* and a link, of at least two patterns, and a URL was suppressed
C39_Witness ==
    /\ cfg.max_per_pattern > 0
    /\ Cardinality(DOMAIN pattern_counts) >= 2
    /\ patterns_suppressed_total(suppressed_by_pattern) >= 1
    /\ \E u \in Nodes : discovered[u].parent # ""
    /\ \E u \in Nodes \ pushed : discovered[u].parent = ""

=============================================================================
